---- MODULE Spec2Model ----
(***************************************************************************)
(* Model of src/components/mail/mail-list.tsx: the list of Thread rows     *)
(* rendered by MailList.  Each row owns its local display state            *)
(* (message.unread), three refs (hoverTimeoutRef, isHovering,              *)
(* hasPrefetched) and shares the `mail` selection state and the session.   *)
(* The environment is the UI event loop: pointer and click events, the     *)
(* browser's timer table, the responses of the mark-as-read endpoint, the  *)
(* markAsRead cache update, session changes, and the parent mounting and   *)
(* unmounting rows (rows are keyed by thread id).                          *)
(***************************************************************************)
EXTENDS Integers, FiniteSets, Bags, TLC

\* ---------------------------------------------------------------- bounds
\* timer handles the browser hands out before the model stops arming
MaxHandle == 3
\* instances (mounts) of one row key
MaxInst == 2
\* mark-as-read requests in flight at the same time
MaxInFlight == 2

\* -------------------------------------------------------------- constants
\* `null` of mail.selected, the absent session and the unset timeout ref
NULL == 0
\* thread ids of the items handed to MailList (keys of the rows)
ThreadIds == {1, 2}
\* user ids a signed-in session can carry
UserIds == {1, 2}
\* values of the fields of the shared mail state other than `selected`
RestVals == {1}

\* lines written with console.log / console.error
LogHover == "Hover threshold reached"
LogFailed == "Failed to mark message as read"
LogError == "Error marking message as read:"
LogNone == "none"

VARIABLES
    mounted,          \* mounted[r]: a Thread instance with key r is mounted
    inst,             \* inst[r]: number of the current (or last) instance of key r
    unread,           \* unread[r]: message.unread of the instance's local state
    mail,             \* shared mail state of useMail (a record, as a function)
    session,          \* session?.user.id, NULL when signed out
    hoverTimeoutRef,  \* hoverTimeoutRef.current of the row (NULL = undefined)
    isHovering,       \* isHovering.current
    hasPrefetched,    \* hasPrefetched.current
    timers,           \* the browser's pending timers, with their closures
    nextHandle,       \* next handle setTimeout returns
    requests,         \* bag of handleMailClick continuations awaiting a reply
    preloaded,        \* preloaded[r]: bag of the user ids the current instance
                      \* of row r has called preloadThread(userId, r) with
    console           \* last line written to the console

vars == <<mounted, inst, unread, mail, session, hoverTimeoutRef, isHovering,
          hasPrefetched, timers, nextHandle, requests, preloaded, console>>

rowVars == <<unread, hoverTimeoutRef, isHovering, hasPrefetched>>

\* ------------------------------------------------------------- helpers

\* clearTimeout(handle): drops the pending timer with that handle, if any
clearTimeout(h, ts) == {t \in ts : t.handle # h}

\* setMail(value): the setter of the shared state replaces the state
setMail(value) == value

\* { ...mail, selected: id }
SpreadSelected(m, id) ==
    [f \in DOMAIN m \cup {"selected"} |-> IF f = "selected" THEN id ELSE m[f]]

\* isMailSelected = message.id === mail.selected
isMailSelected(r) == mail["selected"] = r

\* state of the shared atom before any click
useMail == {[selected |-> NULL, rest |-> v] : v \in RestVals}

Request(r, ph) == [threadId |-> r, inst |-> inst[r], phase |-> ph]

InFlight == BagCardinality(requests)

One(x) == SetToBag({x})

\* --------------------------------------------------------------- Init

Init ==
    /\ mounted = [r \in ThreadIds |-> TRUE]
    /\ inst = [r \in ThreadIds |-> 1]
    /\ unread \in [ThreadIds -> BOOLEAN]
    /\ mail \in useMail
    /\ session \in UserIds \cup {NULL}
    /\ hoverTimeoutRef = [r \in ThreadIds |-> NULL]
    /\ isHovering = [r \in ThreadIds |-> FALSE]
    /\ hasPrefetched = [r \in ThreadIds |-> FALSE]
    /\ timers = {}
    /\ nextHandle = 1
    /\ requests = EmptyBag
    /\ preloaded = [r \in ThreadIds |-> EmptyBag]
    /\ console = LogNone

\* ------------------------------------------------------------- actions

\* mutant: the pointer-enter arms without clearing the pending timeout
handleMouseEnterNoClear(r) ==
    /\ mounted[r]
    /\ isHovering' = [isHovering EXCEPT ![r] = TRUE]
    /\ IF session # NULL /\ ~hasPrefetched[r]
       THEN /\ nextHandle <= MaxHandle
            /\ timers' = timers \cup
                         {[handle |-> nextHandle, threadId |-> r, userId |-> session]}
            /\ hoverTimeoutRef' = [hoverTimeoutRef EXCEPT ![r] = nextHandle]
            /\ nextHandle' = nextHandle + 1
       ELSE UNCHANGED <<timers, hoverTimeoutRef, nextHandle>>
    /\ UNCHANGED <<mounted, inst, unread, mail, session, hasPrefetched,
                   requests, preloaded, console>>

\* onMouseEnter of row r
handleMouseEnter(r) ==
    /\ mounted[r]
    /\ isHovering' = [isHovering EXCEPT ![r] = TRUE]
    /\ IF session # NULL /\ ~hasPrefetched[r]
       THEN /\ nextHandle <= MaxHandle
            /\ timers' = clearTimeout(hoverTimeoutRef[r], timers) \cup
                         {[handle |-> nextHandle, threadId |-> r, userId |-> session]}
            /\ hoverTimeoutRef' = [hoverTimeoutRef EXCEPT ![r] = nextHandle]
            /\ nextHandle' = nextHandle + 1
       ELSE UNCHANGED <<timers, hoverTimeoutRef, nextHandle>>
    /\ UNCHANGED <<mounted, inst, unread, mail, session, hasPrefetched,
                   requests, preloaded, console>>

\* mutant: the pointer-leave forgets to clear the timeout
handleMouseLeaveKeepsTimer(r) ==
    /\ mounted[r]
    /\ isHovering' = [isHovering EXCEPT ![r] = FALSE]
    /\ UNCHANGED <<mounted, inst, unread, mail, session, hoverTimeoutRef,
                   hasPrefetched, timers, nextHandle, requests, preloaded,
                   console>>

\* mutant: the pointer-leave clears a timeout shared by all rows
handleMouseLeaveClearsAll(r) ==
    /\ mounted[r]
    /\ isHovering' = [isHovering EXCEPT ![r] = FALSE]
    /\ timers' = {}
    /\ UNCHANGED <<mounted, inst, unread, mail, session, hoverTimeoutRef,
                   hasPrefetched, nextHandle, requests, preloaded, console>>

\* onMouseLeave of row r
handleMouseLeave(r) ==
    /\ mounted[r]
    /\ isHovering' = [isHovering EXCEPT ![r] = FALSE]
    /\ timers' = clearTimeout(hoverTimeoutRef[r], timers)
    /\ UNCHANGED <<mounted, inst, unread, mail, session, hoverTimeoutRef,
                   hasPrefetched, nextHandle, requests, preloaded, console>>

\* mutant: the callback does not record that the row has prefetched
TimerFireNoFlag(t) ==
    /\ t \in timers
    /\ timers' = timers \ {t}
    /\ IF isHovering[t.threadId]
       THEN /\ console' = LogHover
            /\ preloaded' = [preloaded EXCEPT ![t.threadId] = @ (+) One(t.userId)]
       ELSE UNCHANGED <<console, preloaded>>
    /\ UNCHANGED <<mounted, inst, unread, mail, session, hoverTimeoutRef,
                   isHovering, hasPrefetched, nextHandle, requests>>

\* mutant: the callback reads the session of the moment it runs
TimerFireCurrentSession(t) ==
    /\ t \in timers
    /\ timers' = timers \ {t}
    /\ IF isHovering[t.threadId]
       THEN /\ console' = LogHover
            /\ preloaded' = [preloaded EXCEPT ![t.threadId] = @ (+) One(session)]
            /\ hasPrefetched' = [hasPrefetched EXCEPT ![t.threadId] = TRUE]
       ELSE UNCHANGED <<console, preloaded, hasPrefetched>>
    /\ UNCHANGED <<mounted, inst, unread, mail, session, hoverTimeoutRef,
                   isHovering, nextHandle, requests>>

\* the callback given to setTimeout runs (HOVER_DELAY has elapsed)
TimerFire(t) ==
    /\ t \in timers
    /\ timers' = timers \ {t}
    /\ IF isHovering[t.threadId]
       THEN /\ console' = LogHover
            /\ preloaded' = [preloaded EXCEPT ![t.threadId] = @ (+) One(t.userId)]
            /\ hasPrefetched' = [hasPrefetched EXCEPT ![t.threadId] = TRUE]
       ELSE UNCHANGED <<console, preloaded, hasPrefetched>>
    /\ UNCHANGED <<mounted, inst, unread, mail, session, hoverTimeoutRef,
                   isHovering, nextHandle, requests>>

\* mutant: the click posts mark-as-read only for a row shown as unread
handleMailClickOnlyUnread(r) ==
    /\ mounted[r]
    /\ IF isMailSelected(r)
       THEN /\ mail' = setMail([selected |-> NULL])
            /\ UNCHANGED requests
       ELSE /\ InFlight < MaxInFlight
            /\ mail' = setMail(SpreadSelected(mail, r))
            /\ requests' = IF unread[r]
                           THEN requests (+) One(Request(r, "fetch"))
                           ELSE requests
    /\ UNCHANGED <<mounted, inst, session, rowVars, timers, nextHandle,
                   preloaded, console>>

\* onClick of row r, up to the await of fetch
handleMailClick(r) ==
    /\ mounted[r]
    /\ IF isMailSelected(r)
       THEN /\ mail' = setMail([selected |-> NULL])
            /\ UNCHANGED requests
       ELSE /\ InFlight < MaxInFlight
            /\ mail' = setMail(SpreadSelected(mail, r))
            /\ requests' = requests (+) One(Request(r, "fetch"))
    /\ UNCHANGED <<mounted, inst, session, rowVars, timers, nextHandle,
                   preloaded, console>>

\* mutant: the update goes to the row selected when the response arrives
setMessageReadSelected(q) ==
    IF mail["selected"] \in ThreadIds /\ mounted[mail["selected"]]
    THEN [unread EXCEPT ![mail["selected"]] = FALSE]
    ELSE unread

\* setMessage((prev) => ({ ...prev, unread: false })) of the instance that
\* issued the request; a state update of an unmounted instance is dropped
setMessageRead(q) ==
    IF mounted[q.threadId] /\ inst[q.threadId] = q.inst
    THEN [unread EXCEPT ![q.threadId] = FALSE]
    ELSE unread

\* fetch resolves with response.ok: setMessage, then markAsRead is called
ResponseOk(q) ==
    /\ BagIn(q, requests) /\ q.phase = "fetch"
    /\ unread' = setMessageRead(q)
    /\ requests' = (requests (-) One(q)) (+) One([q EXCEPT !.phase = "mark"])
    /\ UNCHANGED <<mounted, inst, mail, session, hoverTimeoutRef, isHovering,
                   hasPrefetched, timers, nextHandle, preloaded, console>>

\* mutant: a response that is not ok undoes the selection
ResponseNotOkRollsBack(q) ==
    /\ BagIn(q, requests) /\ q.phase = "fetch"
    /\ console' = LogFailed
    /\ requests' = requests (-) One(q)
    /\ mail' = setMail(SpreadSelected(mail, NULL))
    /\ UNCHANGED <<mounted, inst, session, rowVars, timers, nextHandle,
                   preloaded>>

\* mutant: the row is shown as read without looking at response.ok
ResponseNotOkMarksRead(q) ==
    /\ BagIn(q, requests) /\ q.phase = "fetch"
    /\ console' = LogFailed
    /\ requests' = requests (-) One(q)
    /\ unread' = setMessageRead(q)
    /\ UNCHANGED <<mounted, inst, mail, session, hoverTimeoutRef, isHovering,
                   hasPrefetched, timers, nextHandle, preloaded>>

\* fetch resolves with a response that is not ok
ResponseNotOk(q) ==
    /\ BagIn(q, requests) /\ q.phase = "fetch"
    /\ console' = LogFailed
    /\ requests' = requests (-) One(q)
    /\ UNCHANGED <<mounted, inst, mail, session, rowVars, timers, nextHandle,
                   preloaded>>

\* fetch rejects (network error): the catch clause logs it
ResponseThrows(q) ==
    /\ BagIn(q, requests) /\ q.phase = "fetch"
    /\ console' = LogError
    /\ requests' = requests (-) One(q)
    /\ UNCHANGED <<mounted, inst, mail, session, rowVars, timers, nextHandle,
                   preloaded>>

\* await markAsRead(message.id) settles; a rejection is logged by the catch
MarkAsReadSettles(q, ok) ==
    /\ BagIn(q, requests) /\ q.phase = "mark"
    /\ console' = IF ok THEN console ELSE LogError
    /\ requests' = requests (-) One(q)
    /\ UNCHANGED <<mounted, inst, mail, session, rowVars, timers, nextHandle,
                   preloaded>>

\* useSession delivers another session (sign-in, sign-out, other account)
SessionChange(u) ==
    /\ u # session
    /\ session' = u
    /\ UNCHANGED <<mounted, inst, mail, rowVars, timers, nextHandle, requests,
                   preloaded, console>>

\* the parent stops rendering key r: the cleanup of the effect runs
Unmount(r) ==
    /\ mounted[r]
    /\ mounted' = [mounted EXCEPT ![r] = FALSE]
    /\ timers' = clearTimeout(hoverTimeoutRef[r], timers)
    /\ UNCHANGED <<inst, mail, session, rowVars, nextHandle, requests,
                   preloaded, console>>

\* the parent renders key r (again): a new instance with fresh state and refs
Mount(r, u) ==
    /\ ~mounted[r]
    /\ inst[r] < MaxInst
    /\ mounted' = [mounted EXCEPT ![r] = TRUE]
    /\ inst' = [inst EXCEPT ![r] = @ + 1]
    /\ unread' = [unread EXCEPT ![r] = u]
    /\ hoverTimeoutRef' = [hoverTimeoutRef EXCEPT ![r] = NULL]
    /\ isHovering' = [isHovering EXCEPT ![r] = FALSE]
    /\ hasPrefetched' = [hasPrefetched EXCEPT ![r] = FALSE]
    /\ preloaded' = [preloaded EXCEPT ![r] = EmptyBag]
    /\ UNCHANGED <<mail, session, timers, nextHandle, requests, console>>

Requests == {[threadId |-> r, inst |-> i, phase |-> ph] :
                r \in ThreadIds, i \in 1..MaxInst, ph \in {"fetch", "mark"}}

Next ==
    \/ \E r \in ThreadIds : handleMouseEnter(r)
    \/ \E r \in ThreadIds : handleMouseLeave(r)
    \/ \E t \in timers : TimerFire(t)
    \/ \E r \in ThreadIds : handleMailClick(r)
    \/ \E q \in Requests : ResponseOk(q)
    \/ \E q \in Requests : ResponseNotOk(q)
    \/ \E q \in Requests : ResponseThrows(q)
    \/ \E q \in Requests, ok \in BOOLEAN : MarkAsReadSettles(q, ok)
    \/ \E u \in UserIds \cup {NULL} : SessionChange(u)
    \/ \E r \in ThreadIds : Unmount(r)
    \/ \E r \in ThreadIds, u \in BOOLEAN : Mount(r, u)

Spec == Init /\ [][Next]_vars


\* The hover handlers and the click handler share no variable they write:
\* HoverSpec and ClickSpec are the two projections of Spec, each with the
\* mounting and unmounting of rows.

HoverNext ==
    \/ \E r \in ThreadIds : handleMouseEnter(r)
    \/ \E r \in ThreadIds : handleMouseLeave(r)
    \/ \E t \in timers : TimerFire(t)
    \/ \E u \in UserIds \cup {NULL} : SessionChange(u)
    \/ \E r \in ThreadIds : Unmount(r)
    \/ \E r \in ThreadIds : Mount(r, TRUE)

\* the hover handlers never read message.unread: every row starts unread
HoverInit == Init /\ unread = [r \in ThreadIds |-> TRUE]

HoverSpec == HoverInit /\ [][HoverNext]_vars

\* a pending timer whose delay has elapsed is run by the event loop
HoverFairSpec ==
    HoverSpec /\ \A h \in 1..MaxHandle :
                    WF_vars(\E t \in timers : t.handle = h /\ TimerFire(t))

ClickNext ==
    \/ \E r \in ThreadIds : handleMailClick(r)
    \/ \E q \in Requests : ResponseOk(q)
    \/ \E q \in Requests : ResponseNotOk(q)
    \/ \E q \in Requests : ResponseThrows(q)
    \/ \E q \in Requests, ok \in BOOLEAN : MarkAsReadSettles(q, ok)
    \/ \E r \in ThreadIds : Unmount(r)
    \/ \E r \in ThreadIds, u \in BOOLEAN : Mount(r, u)

\* the click handler never reads the session: it starts signed out
ClickInit == Init /\ session = NULL

ClickSpec == ClickInit /\ [][ClickNext]_vars

\* ------------------------------------------------ observation operators

\* the pending timers armed by row r
TimersOf(r) == {t \in timers : t.threadId = r}

\* number of preloadThread calls made by the current instance of row r
PreloadsOf(r) == BagCardinality(preloaded[r])

\* ---------------------------------------------------------------- C1
\* C1: a preloadThread call for a row is made only by the firing of a timer
\* that the row's own pointer-enter armed (it is the one hoverTimeoutRef
\* holds) while the row is mounted and still hovered; after every step each
\* pending timer belongs to a mounted, hovered row, so a pointer-leave or
\* an unmount (the only way a row changes identity) leaves no pending timer
\* of the row behind.
C1_PrefetchOnlyByLiveTimer ==
    [][\A r \in ThreadIds :
         /\ PreloadsOf(r)' > PreloadsOf(r) =>
               /\ mounted[r] /\ isHovering[r]
               /\ \E t \in TimersOf(r) :
                     /\ t.handle = hoverTimeoutRef[r]
                     /\ t \notin timers'
               /\ PreloadsOf(r)' = PreloadsOf(r) + 1
         /\ (handleMouseLeave(r) \/ Unmount(r)) => TimersOf(r)' = {}
         /\ TimersOf(r)' # {} => mounted'[r] /\ isHovering'[r]
      ]_vars

\* a row whose timer was cancelled by a pointer-leave while another row's
\* timer went on to prefetch
C1_Witness ==
    \E r, q \in ThreadIds :
        /\ r # q
        /\ mounted[r] /\ ~isHovering[r] /\ hoverTimeoutRef[r] # NULL
        /\ PreloadsOf(r) = 0
        /\ PreloadsOf(q) = 1 /\ isHovering[q]

\* ---------------------------------------------------------------- C2
\* C2: every instance of a row calls preloadThread at most once.
C2_PrefetchAtMostOnce ==
    \A r \in ThreadIds : PreloadsOf(r) <= 1

\* a row that has prefetched, is hovered again with a session present, and
\* has no timer pending
C2_Witness ==
    \E r \in ThreadIds :
        /\ mounted[r] /\ isHovering[r] /\ hasPrefetched[r]
        /\ session # NULL
        /\ PreloadsOf(r) = 1
        /\ TimersOf(r) = {}
        /\ nextHandle > hoverTimeoutRef[r] + 1

\* ---------------------------------------------------------------- C4
\* C4: a timer armed by a pointer-enter of row r under user u leads to the
\* pointer leaving, the row unmounting, the timer being re-armed by another
\* pointer-enter, or exactly one preloadThread call of the instance, made
\* for thread r and user u.
C4_HoverLeadsToPrefetch ==
    \A r \in ThreadIds : \A u \in UserIds : \A h \in 1..MaxHandle :
        ([handle |-> h, threadId |-> r, userId |-> u] \in timers)
        ~> \/ ~isHovering[r]
           \/ ~mounted[r]
           \/ hoverTimeoutRef[r] # h
           \/ /\ PreloadsOf(r) = 1
              /\ CopiesIn(u, preloaded[r]) = 1

\* a hovered row whose single prefetch was made for the user of the
\* pointer-enter although the session has changed since
C4_Witness ==
    \E r \in ThreadIds : \E u \in UserIds :
        /\ mounted[r] /\ isHovering[r]
        /\ PreloadsOf(r) = 1
        /\ CopiesIn(u, preloaded[r]) = 1
        /\ session # u

\* ---------------------------------------------------------------- C5
\* C5: after every step each row has at most one pending timer; a timer of
\* row r appears only in a pointer-enter of row r, and that pointer-enter
\* leaves the new timer as the only one of the row.
C5_OneTimerPerRow ==
    [][\A r \in ThreadIds :
         /\ Cardinality(TimersOf(r)') <= 1
         /\ ~(TimersOf(r)' \subseteq TimersOf(r)) =>
               /\ handleMouseEnter(r)
               /\ TimersOf(r)' = {[handle |-> nextHandle, threadId |-> r,
                                   userId |-> session]}
      ]_vars

\* both rows have a timer pending and one of them was re-armed
C5_Witness ==
    /\ \A r \in ThreadIds : Cardinality(TimersOf(r)) = 1
    /\ nextHandle > Cardinality(ThreadIds) + 1

\* ---------------------------------------------------------------- C6
\* C6: a pointer-enter, pointer-leave or timer firing of row r leaves the
\* hover flag, timeout ref, pending timers, prefetched flag and preloadThread
\* calls of every other row unchanged, and changes nothing but hover state.
C6_HoverFrame ==
    [][\A r \in ThreadIds :
         (\/ handleMouseEnter(r)
          \/ handleMouseLeave(r)
          \/ \E t \in TimersOf(r) : TimerFire(t))
         => /\ \A q \in ThreadIds \ {r} :
                  /\ isHovering'[q] = isHovering[q]
                  /\ hasPrefetched'[q] = hasPrefetched[q]
                  /\ hoverTimeoutRef'[q] = hoverTimeoutRef[q]
                  /\ TimersOf(q)' = TimersOf(q)
                  /\ PreloadsOf(q)' = PreloadsOf(q)
            /\ UNCHANGED <<mounted, inst, unread, mail, session, requests>>
      ]_vars

\* one row has prefetched while the other still has its timer pending
C6_Witness ==
    \E r, q \in ThreadIds :
        /\ r # q
        /\ hasPrefetched[r] /\ PreloadsOf(r) = 1 /\ TimersOf(r) = {}
        /\ ~hasPrefetched[q] /\ TimersOf(q) # {} /\ PreloadsOf(q) = 0

\* ---------------------------------------------------------------- C3
\* C3: when the mark-as-read request comes back not ok or throws, the step
\* writes one console line and ends that click's continuation: no unread
\* flag changes, the selection stays, markAsRead is not called and no
\* request is issued.
C3_FailureOnlyLogged ==
    [][\A q \in Requests :
         (ResponseNotOk(q) \/ ResponseThrows(q))
         => /\ unread' = unread
            /\ mail' = mail
            /\ requests' = requests (-) One(q)
            /\ console' \in {LogFailed, LogError}
      ]_vars

\* a never-remounted row that is still unread and still selected after its
\* request has failed
C3_Witness ==
    \E r \in ThreadIds :
        /\ mounted[r] /\ inst[r] = 1
        /\ unread[r]
        /\ mail["selected"] = r
        /\ requests = EmptyBag
        /\ console = LogFailed

\* ---------------------------------------------------------------- C7
\* C7: a click on the selected row sets the selection to null and issues no
\* request; a click on another row selects it and issues exactly one
\* mark-as-read request for it, read or unread; at most one row is selected.
C7_ClickTogglesSelection ==
    [][\A r \in ThreadIds :
         handleMailClick(r)
         => /\ IF mail["selected"] = r
               THEN /\ mail'["selected"] = NULL
                    /\ requests' = requests
               ELSE /\ mail'["selected"] = r
                    /\ requests' = requests (+)
                          One([threadId |-> r, inst |-> inst[r],
                               phase |-> "fetch"])
            /\ Cardinality({p \in ThreadIds : mail'["selected"] = p}) <= 1
      ]_vars

\* after a deselecting click, a row shown as read was clicked and has its
\* request in flight
C7_Witness ==
    \E r \in ThreadIds :
        /\ "rest" \notin DOMAIN mail
        /\ mail["selected"] = r
        /\ mounted[r] /\ inst[r] = 1 /\ ~unread[r]
        /\ CopiesIn([threadId |-> r, inst |-> 1, phase |-> "fetch"],
                    requests) = 1
        /\ \A q \in BagToSet(requests) : q.phase = "fetch"

\* ---------------------------------------------------------------- C8
\* C8: within one lifetime of a row its unread flag changes only from true
\* to false, and only in the step in which a request of that instance for
\* that row gets an ok response (its continuation goes on to markAsRead).
C8_UnreadOnlyClearedByOk ==
    [][\A r \in ThreadIds :
         (mounted[r] /\ mounted'[r] /\ inst'[r] = inst[r]
            /\ unread'[r] # unread[r])
         => /\ unread[r] /\ ~unread'[r]
            /\ \E q \in Requests :
                  /\ q.threadId = r /\ q.inst = inst[r] /\ q.phase = "fetch"
                  /\ BagIn(q, requests)
                  /\ requests' = (requests (-) One(q)) (+)
                                    One([q EXCEPT !.phase = "mark"])
      ]_vars

\* a row shown as read whose ok response has just arrived, next to a row
\* that is still unread after a failed request
C8_Witness ==
    \E r, p \in ThreadIds :
        /\ r # p
        /\ mounted[r] /\ ~unread[r]
        /\ BagIn([threadId |-> r, inst |-> inst[r], phase |-> "mark"], requests)
        /\ mounted[p] /\ inst[p] = 1 /\ unread[p]
        /\ console = LogFailed

\* ---------------------------------------------------------------- C9
\* C9: an ok response clears the unread flag of the row instance that issued
\* the request, whatever is selected by then, and changes neither the
\* selection nor the unread flag of any other row.
C9_LateOkResponse ==
    [][\A q \in Requests :
         ResponseOk(q)
         => /\ mail' = mail
            /\ \A r \in ThreadIds \ {q.threadId} : unread'[r] = unread[r]
            /\ (mounted[q.threadId] /\ inst[q.threadId] = q.inst)
                  => ~unread'[q.threadId]
      ]_vars

\* the ok response of a row has arrived while another, still unread row is
\* the selected one
C9_Witness ==
    \E r, p \in ThreadIds :
        /\ r # p
        /\ mail["selected"] = p /\ mounted[p] /\ unread[p]
        /\ mounted[r] /\ ~unread[r]
        /\ BagIn([threadId |-> r, inst |-> inst[r], phase |-> "mark"], requests)
        /\ BagIn([threadId |-> p, inst |-> inst[p], phase |-> "fetch"], requests)

====
